---- MODULE Spec2Model ----
(***************************************************************************)
(* A model of the expense-row enricher (enrich.py): the CSV loader with    *)
(* its header check, the amount validator, the three lookup clients, the   *)
(* per-row enrichment pipeline, and the thread-pool driver that fans the   *)
(* rows out and collects the results with as_completed before writing.     *)
(*                                                                         *)
(* Text is a sequence of one-character strings, so that strip() and        *)
(* float() are computed from the characters.  A Python float is a record   *)
(* [tag, neg, num]: tag "fin" carries the magnitude num in units of        *)
(* 1/Scale, tags "nan" and "inf" are the special values; None and a raised *)
(* exception have records of the same shape so that values compare.        *)
(***************************************************************************)
EXTENDS Integers, Sequences, FiniteSets, TLC

\* ------------------------------------------------------------- bounds

\* Longest amount cell enumerated by InitAmount.
MaxLen == 3
\* Most data rows of an input file enumerated by Init.
MaxRows == 2
\* Largest --workers override enumerated.
MaxWorkers == 2

\* ------------------------------------------------------------- text

Digits == {"0", "1"}
\* The characters amount cells are built from.
Chars == Digits \cup {"-", ".", "n", "a", "i", "f", " "}

RECURSIVE TextUpTo(_)
TextUpTo(n) ==
    IF n = 0 THEN {<<>>}
    ELSE LET shorter == TextUpTo(n - 1)
         IN  shorter \cup {Append(s, c) : s \in shorter, c \in Chars}

RECURSIVE LStrip(_)
LStrip(s) == IF s # <<>> /\ Head(s) = " " THEN LStrip(Tail(s)) ELSE s

RECURSIVE RStrip(_)
RStrip(s) ==
    IF s # <<>> /\ s[Len(s)] = " " THEN RStrip(SubSeq(s, 1, Len(s) - 1)) ELSE s

\* str.strip()
Strip(s) == RStrip(LStrip(s))

\* ------------------------------------------------------------- floats

RECURSIVE Pow10(_)
Pow10(n) == IF n = 0 THEN 1 ELSE 10 * Pow10(n - 1)

\* Magnitudes are kept in units of 1/Scale: every fractional digit of a
\* cell of at most MaxLen characters is representable.
Scale == Pow10(MaxLen)

Fin(neg, num) == [tag |-> "fin", neg |-> neg, num |-> num]
NaN == [tag |-> "nan", neg |-> FALSE, num |-> 0]
Inf(neg) == [tag |-> "inf", neg |-> neg, num |-> 0]
None == [tag |-> "None", neg |-> FALSE, num |-> 0]
\* The value standing for "the call raised an Exception".
Raised == [tag |-> "Exception", neg |-> FALSE, num |-> 0]

DigitVal(c) == IF c = "1" THEN 1 ELSE 0

\* Position of the decimal point of b, Len(b) + 1 when it has none.
PointAt(b) ==
    IF \E k \in 1..Len(b) : b[k] = "."
    THEN CHOOSE k \in 1..Len(b) : b[k] = "."
    ELSE Len(b) + 1

\* digitpart ["." [digitpart]] | "." digitpart
IsDecimal(b) ==
    /\ \A k \in 1..Len(b) : b[k] \in Digits \cup {"."}
    /\ Cardinality({k \in 1..Len(b) : b[k] = "."}) <= 1
    /\ \E k \in 1..Len(b) : b[k] \in Digits

RECURSIVE SumDigits(_, _, _)
\* Sum over k in lo..Len(b), k # p, of the digit b[k] at its decimal weight.
SumDigits(b, p, k) ==
    IF k > Len(b) THEN 0
    ELSE (IF k < p THEN DigitVal(b[k]) * Pow10(p - 1 - k) * Scale
          ELSE IF k > p THEN DigitVal(b[k]) * (Scale \div Pow10(k - p))
          ELSE 0)
         + SumDigits(b, p, k + 1)

DecimalValue(b) == SumDigits(b, PointAt(b), 1)

\* float(str): surrounding whitespace is ignored, then an optional sign and
\* either nan, inf or a decimal numeral; anything else raises ValueError.
ParseFloat(s) ==
    LET t == Strip(s)
        neg == t # <<>> /\ Head(t) = "-"
        body == IF neg THEN Tail(t) ELSE t
    IN  IF body = <<"n", "a", "n">> THEN NaN
        ELSE IF body = <<"i", "n", "f">> THEN Inf(neg)
        ELSE IF IsDecimal(body) THEN Fin(neg, DecimalValue(body))
        ELSE Raised

\* amt < 0 on floats: false for nan and for -0.0.
LessThanZero(f) ==
    \/ f.tag = "fin" /\ f.neg /\ f.num > 0
    \/ f.tag = "inf" /\ f.neg

parse_amount(val) ==
    LET amt == ParseFloat(val)
    IN  IF amt = Raised THEN None
        ELSE IF LessThanZero(amt) THEN None
        ELSE amt

\* ------------------------------------------------------------- JSON

\* A decoded JSON value, tagged by its Python type.
JNull == [t |-> "null"]
JNum(f) == [t |-> "num", v |-> f]
JStr(s) == [t |-> "str", s |-> s]
JArr(a) == [t |-> "arr", a |-> a]
\* o: a function from the object's keys to JSON values.
JObj(o) == [t |-> "obj", o |-> o]
JEmptyObj == [t |-> "obj", o |-> [k \in {} |-> JNull]]

\* bool(j)
Truthy(j) ==
    CASE j.t = "null" -> FALSE
      [] j.t = "num" -> ~(j.v.tag = "fin" /\ j.v.num = 0)
      [] j.t = "str" -> j.s # <<>>
      [] j.t = "arr" -> j.a # <<>>
      [] j.t = "obj" -> DOMAIN j.o # {}

\* j or default
OrElse(j, default) == IF Truthy(j) THEN j ELSE default

\* dict.get(key) on a value known to be an object.
Get(j, key) == IF key \in DOMAIN j.o THEN j.o[key] ELSE JNull

\* float(j) for a value that is not None: a number converts, a string is
\* parsed, a list or an object raises TypeError.
PyFloat(j) ==
    CASE j.t = "num" -> j.v
      [] j.t = "str" -> ParseFloat(j.s)
      [] OTHER -> Raised

\* An integer-valued JSON number.
Num(n) == JNum(Fin(FALSE, n * Scale))

\* What session.get(...) followed by raise_for_status() and json() ended
\* with: the exception one of them raised, or "ok" and the decoded payload.
Response(status, data) == [status |-> status, data |-> data]
Failures ==
    {Response(e, JNull) :
        e \in {"ConnectionError", "Timeout", "HTTPError", "JSONDecodeError"}}
\* The entry of a call that has not returned yet.
Pending == Response("pending", JNull)

\* Objects with the two fields k1, k2 in every shape the clients tell apart:
\* both numbers, a numeric string, one field missing, null, not numeric.
Payloads(k1, k2) ==
    {[x \in {k1, k2} |-> IF x = k1 THEN Num(52) ELSE Num(13)],
     [x \in {k1, k2} |-> IF x = k1 THEN JStr(<<"1", ".", "1">>) ELSE Num(0)],
     [x \in {k1} |-> Num(52)],
     [x \in {k2} |-> Num(13)],
     [x \in {k1, k2} |-> IF x = k1 THEN JNull ELSE Num(13)],
     [x \in {k1, k2} |-> IF x = k1 THEN Num(52) ELSE JStr(<<"a">>)],
     [x \in {k1, k2} |-> IF x = k1 THEN JArr(<<>>) ELSE Num(13)]}

GeoWrap(hit) == JObj([k \in {"results"} |-> JArr(<<JObj(hit)>>)])
WxWrap(cw) == JObj([k \in {"current_weather"} |-> JObj(cw)])

\* Every answer of the geocoding service the model enumerates.
FullGeo ==
    Failures
    \cup {Response("ok", GeoWrap(o)) : o \in Payloads("latitude", "longitude")}
    \cup {Response("ok", JArr(<<>>)),
          Response("ok", JEmptyObj),
          Response("ok", JObj([k \in {"results"} |-> JNull])),
          Response("ok", JObj([k \in {"results"} |-> JArr(<<>>)])),
          Response("ok", JObj([k \in {"results"} |-> JArr(<<JNull>>)])),
          Response("ok", JObj([k \in {"results"} |-> Num(1)]))}

FullWx ==
    Failures
    \cup {Response("ok", WxWrap(o)) : o \in Payloads("temperature", "windspeed")}
    \cup {Response("ok", JArr(<<>>)),
          Response("ok", JEmptyObj),
          Response("ok", JObj([k \in {"current_weather"} |-> JNull])),
          Response("ok", JObj([k \in {"current_weather"} |-> Num(1)]))}

FxPayload(result, rate) ==
    JObj([k \in {"result", "info"} |->
            IF k = "result" THEN result ELSE JObj([r \in {"rate"} |-> rate])])

FullFx ==
    Failures
    \cup {Response("ok", FxPayload(Num(96), Num(2))),
          Response("ok", FxPayload(JStr(<<"1", ".", "1">>), Num(0))),
          Response("ok", FxPayload(JNull, Num(2))),
          Response("ok", FxPayload(Num(96), JNull)),
          Response("ok", FxPayload(Num(96), JStr(<<"a">>))),
          Response("ok", JObj([k \in {"result"} |-> Num(96)])),
          Response("ok", JObj([k \in {"info"} |-> JObj([r \in {"rate"} |-> Num(2)])])),
          Response("ok", JObj([k \in {"result", "info"} |->
                                  IF k = "result" THEN Num(96) ELSE Num(1)])),
          Response("ok", JArr(<<>>)),
          Response("ok", JEmptyObj)}

\* ------------------------------------------------------------- lookup clients

\* A client's return value: None (some = FALSE) or a dict of two floats.
NoDict == [some |-> FALSE, a |-> None, b |-> None]
Dict(a, b) == [some |-> TRUE, a |-> a, b |-> b]
\* The outcome of a try body that raised an Exception.
RaisedDict == [some |-> FALSE, a |-> Raised, b |-> Raised]

\* Catch without its except clause: the exception leaves the client.
CatchNothing(x) == x

\* "except Exception: return None"
Catch(x) == IF x = RaisedDict THEN NoDict ELSE x

\* TwoFloats testing "is None" with "and": a dict is returned as soon as
\* one value is there, the other left None.
TwoFloatsEither(x, y) ==
    IF x.t = "null" /\ y.t = "null" THEN NoDict
    ELSE Dict(IF x.t = "null" THEN None ELSE PyFloat(x),
              IF y.t = "null" THEN None ELSE PyFloat(y))

\* The common tail of the three try bodies: None when either value is
\* None, the exception float() raises, else the dict of the two floats.
TwoFloats(x, y) ==
    IF x.t = "null" \/ y.t = "null" THEN NoDict
    ELSE IF PyFloat(x) = Raised \/ PyFloat(y) = Raised THEN RaisedDict
    ELSE Dict(PyFloat(x), PyFloat(y))

\* The try body of geocode_city on the service's answer r: session.get,
\* raise_for_status or json raise unless the status is "ok"; .get raises on
\* a payload that is no object, [0] on results that are no list.
GeocodeBody(r) ==
    IF r.status # "ok" THEN RaisedDict
    ELSE IF r.data.t # "obj" THEN RaisedDict
    ELSE LET results == OrElse(Get(r.data, "results"), JArr(<<>>))
         IN  IF ~Truthy(results) THEN NoDict
             ELSE IF results.t # "arr" THEN RaisedDict
             ELSE LET hit == results.a[1]
                  IN  IF hit.t # "obj" THEN RaisedDict
                      ELSE TwoFloats(Get(hit, "latitude"), Get(hit, "longitude"))

\* geocode_city: {"lat": a, "lon": b} or None.
geocode_city(r) == Catch(GeocodeBody(r))

WeatherBody(r) ==
    IF r.status # "ok" THEN RaisedDict
    ELSE IF r.data.t # "obj" THEN RaisedDict
    ELSE LET cw == OrElse(Get(r.data, "current_weather"), JEmptyObj)
         IN  IF cw.t # "obj" THEN RaisedDict
             ELSE TwoFloats(Get(cw, "temperature"), Get(cw, "windspeed"))

\* get_current_weather: {"temperature_c": a, "wind_speed_mps": b} or None.
get_current_weather(r) == Catch(WeatherBody(r))

FxBody(r) ==
    IF r.status # "ok" THEN RaisedDict
    ELSE IF r.data.t # "obj" THEN RaisedDict
    ELSE LET result == Get(r.data, "result")
             info == OrElse(Get(r.data, "info"), JEmptyObj)
         IN  IF info.t # "obj" THEN RaisedDict
             ELSE TwoFloats(Get(info, "rate"), result)

\* fx_to_usd: {"fx_rate_to_usd": a, "amount_usd": b} or None.
fx_to_usd(r) == Catch(FxBody(r))

\* ------------------------------------------------------------- input file

req_headers == {"city", "country_code", "local_currency", "amount"}

\* The header line of the file: absent (an empty file) or a list of names.
NoHeader == [some |-> FALSE, names |-> <<>>]
Header(names) == [some |-> TRUE, names |-> names]
\* A file: its header line and its data lines, each a list of cells.
File(header, lines) == [header |-> header, lines |-> lines]

Range(f) == {f[k] : k \in DOMAIN f}

\* rdr.fieldnames or []
FieldnamesOrEmpty(header) == IF header.some THEN header.names ELSE <<>>

\* A dict value of a row: a string, or None for a cell the line lacks.
Cell(s) == [some |-> TRUE, s |-> s]
NoCell == [some |-> FALSE, s |-> <<>>]

\* The dict csv.DictReader builds for one data line: the cell at a name's
\* last position in the header, None (restval) when the line is too short.
DictRow(fieldnames, line) ==
    [k \in Range(fieldnames) |->
        LET j == CHOOSE j \in 1..Len(fieldnames) :
                    /\ fieldnames[j] = k
                    /\ \A m \in (j + 1)..Len(fieldnames) : fieldnames[m] # k
        IN  IF j <= Len(line) THEN Cell(line[j]) ELSE NoCell]

RECURSIVE DictRows(_, _)
\* list(rdr): one dict per data line, in file order; empty lines are skipped.
DictRows(fieldnames, lines) ==
    IF lines = <<>> THEN <<>>
    ELSE IF Head(lines) = <<>> THEN DictRows(fieldnames, Tail(lines))
    ELSE <<DictRow(fieldnames, Head(lines))>> \o DictRows(fieldnames, Tail(lines))

\* The header test looking for missing names only.
MissingHeaders(header) ==
    ~(req_headers \subseteq Range(FieldnamesOrEmpty(header)))

\* The header test of load_rows: TRUE when SystemExit is raised.
InvalidHeaders(header) == Range(FieldnamesOrEmpty(header)) # req_headers

\* ------------------------------------------------------------- enriched rows

\* EnrichedRow built without its retrieved_at argument: the field keeps the
\* dataclass default "".
EnrichedRowNoStamp(city, cc, cur, amt, ts) ==
    [city |-> city, country_code |-> cc, local_currency |-> cur,
     amount_local |-> amt, fx_rate_to_usd |-> None, amount_usd |-> None,
     latitude |-> None, longitude |-> None,
     temperature_c |-> None, wind_speed_mps |-> None,
     retrieved_at |-> ""]

\* EnrichedRow(...) at lines 105-111; the fields not given keep None.
EnrichedRow(city, cc, cur, amt, ts) ==
    [city |-> city, country_code |-> cc, local_currency |-> cur,
     amount_local |-> amt, fx_rate_to_usd |-> None, amount_usd |-> None,
     latitude |-> None, longitude |-> None,
     temperature_c |-> None, wind_speed_mps |-> None,
     retrieved_at |-> ts]

\* (row.get(key) or "").strip()
Field(row, key) ==
    Strip(IF key \in DOMAIN row /\ row[key].some THEN row[key].s ELSE <<>>)

\* One entry of a task's call log: the service, the request parameters and
\* the answer (Pending while the call is in flight).
Call(svc, req, resp) == [svc |-> svc, req |-> req, resp |-> resp]

\* The weather section entered whatever geocoding gave.
WeatherGuardAlways(out) == TRUE

\* "if out.latitude is not None and out.longitude is not None"
WeatherGuard(out) == out.latitude # None /\ out.longitude # None

\* "if amt and cur": an amount of zero is falsy.
FxGuardTruthy(amt, cur) ==
    amt # None /\ ~(amt.tag = "fin" /\ amt.num = 0) /\ cur # <<>>

\* "if amt is not None and cur"
FxGuard(amt, cur) == amt # None /\ cur # <<>>

\* A task of the pool: pc is "queued" (submitted or not yet), the lookup in
\* flight ("geocode", "weather", "fx"), "finished" (the future holds the
\* record) or "raised" (the future holds an exception).
QueuedTask == [pc |-> "queued", out |-> EnrichedRow(<<>>, <<>>, <<>>, None, ""),
               calls |-> <<>>]

\* ------------------------------------------------------------- enrich_one

\* Lines 100-114: the cells are read and stripped, the amount parsed, the
\* record built with its timestamp, and the geocode request sent.
Enter(row, ts) ==
    LET city == Field(row, "city")
        cc == Field(row, "country_code")
        cur == Field(row, "local_currency")
        amt == parse_amount(Field(row, "amount"))
    IN  [pc |-> "geocode",
         out |-> EnrichedRow(city, cc, cur, amt, ts),
         calls |-> <<Call("geocode", [name |-> city, country |-> cc], Pending)>>]

\* The task with the answer r recorded for its call in flight.
Answered(t, r) == [t EXCEPT !.calls[Len(t.calls)].resp = r]

\* "return out": the future is done.
Return(t) == [t EXCEPT !.pc = "finished"]

\* Lines 136-138: the conversion request is sent, or the record returned.
FxSection(t) ==
    IF FxGuard(t.out.amount_local, t.out.local_currency)
    THEN [t EXCEPT !.pc = "fx",
                   !.calls = Append(@, Call("fx",
                                 [from |-> t.out.local_currency,
                                  amount |-> t.out.amount_local], Pending))]
    ELSE Return(t)

\* WeatherSection passing the two coordinates in the other order.
WeatherSectionSwapped(t) ==
    IF WeatherGuard(t.out)
    THEN [t EXCEPT !.pc = "weather",
                   !.calls = Append(@, Call("weather",
                                 [latitude |-> t.out.longitude,
                                  longitude |-> t.out.latitude], Pending))]
    ELSE FxSection(t)

\* Lines 124-126: the weather request is sent, or the section skipped.
WeatherSection(t) ==
    IF WeatherGuard(t.out)
    THEN [t EXCEPT !.pc = "weather",
                   !.calls = Append(@, Call("weather",
                                 [latitude |-> t.out.latitude,
                                  longitude |-> t.out.longitude], Pending))]
    ELSE FxSection(t)

\* StoreGeo with the two coordinates exchanged.
StoreGeoSwapped(out, geo) ==
    IF geo.some THEN [out EXCEPT !.latitude = geo.b, !.longitude = geo.a] ELSE out

\* Lines 114-122 once the geocode call answered r.
StoreGeo(out, geo) ==
    IF geo.some THEN [out EXCEPT !.latitude = geo.a, !.longitude = geo.b] ELSE out

\* Lines 126-134 once the weather call answered.
StoreWeather(out, weather) ==
    IF weather.some
    THEN [out EXCEPT !.temperature_c = weather.a, !.wind_speed_mps = weather.b]
    ELSE out

\* StoreFx falling back to the local amount when the conversion failed.
StoreFxFallback(out, fx) ==
    IF fx.some
    THEN [out EXCEPT !.fx_rate_to_usd = fx.a, !.amount_usd = fx.b]
    ELSE [out EXCEPT !.amount_usd = out.amount_local]

\* Lines 138-146 once the conversion call answered.
StoreFx(out, fx) ==
    IF fx.some
    THEN [out EXCEPT !.fx_rate_to_usd = fx.a, !.amount_usd = fx.b]
    ELSE out

\* An exception a client let through leaves enrich_one: the future holds it.
Raise(t) == [t EXCEPT !.pc = "raised"]

\* enrich_one asking the geocoding service a second time when the first
\* answer gave no coordinates.
AfterGeocodeRetry(t, r) ==
    LET geo == geocode_city(r)
    IN  IF ~geo.some /\ Len(t.calls) = 1
        THEN [Answered(t, r) EXCEPT
                 !.calls = Append(@, Call("geocode", t.calls[1].req, Pending))]
        ELSE WeatherSection([Answered(t, r) EXCEPT !.out = StoreGeo(t.out, geo)])

\* Lines 114-124 once the geocode call answered r.
AfterGeocode(t, r) ==
    LET geo == geocode_city(r)
    IN  IF geo = RaisedDict THEN Raise(Answered(t, r))
        ELSE WeatherSection([Answered(t, r) EXCEPT !.out = StoreGeo(t.out, geo)])

AfterWeather(t, r) ==
    LET weather == get_current_weather(r)
    IN  IF weather = RaisedDict THEN Raise(Answered(t, r))
        ELSE FxSection([Answered(t, r) EXCEPT !.out = StoreWeather(t.out, weather)])

AfterFx(t, r) ==
    LET fx == fx_to_usd(r)
    IN  IF fx = RaisedDict THEN Raise(Answered(t, r))
        ELSE Return([Answered(t, r) EXCEPT !.out = StoreFx(t.out, fx)])

\* ------------------------------------------------------------- writers

headers ==
    <<"city", "country_code", "local_currency", "amount_local", "fx_rate_to_usd",
      "amount_usd", "latitude", "longitude", "temperature_c", "wind_speed_mps",
      "retrieved_at">>

\* The Optional[float] fields of EnrichedRow.
Optional ==
    {"amount_local", "fx_rate_to_usd", "amount_usd", "latitude", "longitude",
     "temperature_c", "wind_speed_mps"}

\* write_json: the array of the records' dicts, None written as null.
write_json(recs) == [format |-> "json", header |-> <<>>, body |-> recs]

\* write_csv: the header line, then per record the DictWriter row of its
\* eleven cells, keyed by header name and laid out in header order; csv
\* writes None as an empty cell.
write_csv(recs) ==
    [format |-> "csv", header |-> headers,
     body |-> [k \in 1..Len(recs) |->
                 [h \in Range(headers) |->
                     LET v == recs[k][h]
                     IN  IF h \in Optional /\ v = None THEN <<>> ELSE v]]]

NoOutput == [format |-> "none", header |-> <<>>, body |-> <<>>]

\* ------------------------------------------------------------- state

VARIABLES
    file,       \* the input file
    argWorkers, \* args.workers
    env,        \* the run's surroundings: which answers the services may
                \* give ("basic" or "full"), what os.cpu_count() returns
                \* (0: None) and how many seconds the clock may reach
    pc,         \* where main is
    rows,       \* load_rows' result
    workers,    \* the pool's max_workers (0 before it is decided)
    submitted,  \* rows 1..submitted have been submitted to the pool
    task,       \* the task of each row
    finished,   \* the tasks in the order their futures were set done
    ready,      \* as_completed: futures found done at the call, not yet yielded
    order,      \* the task indices in the order as_completed yielded them
    enriched,   \* main's result list
    output,     \* the output file
    now         \* the clock, as an index into Timestamps

vars == <<file, argWorkers, env, pc, rows, workers, submitted, task,
          finished, ready, order, enriched, output, now>>

\* _utc_now_iso() at the successive seconds of a run.
Timestamps == <<"2025-01-01T00:00:00Z", "2025-01-01T00:00:01Z">>

Env(answers, cpu_count, seconds) ==
    [answers |-> answers, cpu_count |-> cpu_count, seconds |-> seconds]

Max(a, b) == IF a >= b THEN a ELSE b

\* Line 197 with min in the place of max.
EffectiveWorkersMin(override, cpu_count) ==
    IF override # 0 /\ override > 0 THEN override
    ELSE IF cpu_count # 0 /\ cpu_count < 4 THEN cpu_count ELSE 4

\* Line 197.
EffectiveWorkers(override, cpu_count) ==
    IF override # 0 /\ override > 0 THEN override
    ELSE Max(4, IF cpu_count # 0 THEN cpu_count ELSE 4)

BasicGeo == {Response("Timeout", JNull),
             Response("ok", GeoWrap([x \in {"latitude", "longitude"} |->
                                       IF x = "latitude" THEN Num(52) ELSE Num(13)]))}
BasicWx == {Response("HTTPError", JNull),
            Response("ok", WxWrap([x \in {"temperature", "windspeed"} |->
                                     IF x = "temperature" THEN Num(12) ELSE Num(3)]))}
BasicFx == {Response("ConnectionError", JNull),
            Response("ok", FxPayload(Num(96), Num(2)))}

GeoAnswers == IF env.answers = "full" THEN FullGeo ELSE BasicGeo
WxAnswers == IF env.answers = "full" THEN FullWx ELSE BasicWx
FxAnswers == IF env.answers = "full" THEN FullFx ELSE BasicFx

\* Services that answer as a function of the request: the geocoder knows
\* B and P, finds nothing for O and times out on other names; the weather
\* service answers for B's latitude only; the conversion service converts
\* 1.1 E only.
GeoOracle(req) ==
    CASE req.name = <<"B">> ->
            Response("ok", GeoWrap([x \in {"latitude", "longitude"} |->
                                      IF x = "latitude" THEN Num(52) ELSE Num(13)]))
      [] req.name = <<"P">> ->
            Response("ok", GeoWrap([x \in {"latitude", "longitude"} |->
                                      IF x = "latitude" THEN Num(48) ELSE Num(2)]))
      [] req.name = <<"O">> ->
            Response("ok", JObj([k \in {"results"} |-> JArr(<<>>)]))
      [] OTHER -> Response("Timeout", JNull)
WxOracle(req) ==
    IF req.latitude = Fin(FALSE, 52 * Scale)
    THEN Response("ok", WxWrap([x \in {"temperature", "windspeed"} |->
                                  IF x = "temperature" THEN Num(12) ELSE Num(3)]))
    ELSE Response("HTTPError", JNull)
FxOracle(req) ==
    IF req.from = <<"E">> /\ req.amount = ParseFloat(<<"1", ".", "1">>)
    THEN Response("ok", FxPayload(Num(96), Num(2)))
    ELSE Response("ConnectionError", JNull)

\* The request of the call task t has in flight.
Request(t) == t.calls[Len(t.calls)].req

\* The answers a service may give to a request.
GeoAnswersTo(req) ==
    IF env.answers = "by_request" THEN {GeoOracle(req)} ELSE GeoAnswers
WxAnswersTo(req) ==
    IF env.answers = "by_request" THEN {WxOracle(req)} ELSE WxAnswers
FxAnswersTo(req) ==
    IF env.answers = "by_request" THEN {FxOracle(req)} ELSE FxAnswers

\* Every task reading the loop's last row instead of its own.
RowOfLast(i) == rows[Len(rows)]

\* The row the submit of line 202 bound to task i.
RowOf(i) == rows[i]

N == Len(rows)
Running == {i \in DOMAIN task : task[i].pc \in {"geocode", "weather", "fx"}}

\* ------------------------------------------------------------- main

\* Line 193: load_rows raises SystemExit on a header mismatch, else returns
\* the rows.
LoadRows ==
    /\ pc = "load_rows"
    /\ \/ /\ InvalidHeaders(file.header)
          /\ pc' = "SystemExit"
          /\ UNCHANGED <<rows, task>>
       \/ /\ ~InvalidHeaders(file.header)
          /\ rows' = DictRows(file.header.names, file.lines)
          /\ task' = [i \in 1..Len(rows') |-> QueuedTask]
          /\ pc' = "decide_workers"
    /\ UNCHANGED <<file, argWorkers, env, workers, submitted, finished,
                   ready, order, enriched, output, now>>

\* Lines 197-201: the worker count is decided and the pool created.
DecideWorkers ==
    /\ pc = "decide_workers"
    /\ workers' = EffectiveWorkers(argWorkers, env.cpu_count)
    /\ pc' = "submit"
    /\ UNCHANGED <<file, argWorkers, env, rows, submitted, task, finished,
                   ready, order, enriched, output, now>>

\* Line 202: ex.submit for the next row, in row order.
Submit ==
    /\ pc = "submit"
    /\ submitted < N
    /\ submitted' = submitted + 1
    /\ UNCHANGED <<file, argWorkers, env, pc, rows, workers, task,
                   finished, ready, order, enriched, output, now>>

\* Line 203: as_completed is called once every row is submitted; it notes
\* the futures already done.
AsCompleted ==
    /\ pc = "submit"
    /\ submitted = N
    /\ ready' = {i \in DOMAIN task : task[i].pc \in {"finished", "raised"}}
    /\ pc' = "collect"
    /\ UNCHANGED <<file, argWorkers, env, rows, workers, submitted, task,
                   finished, order, enriched, output, now>>

\* as_completed yielding any finished future it has not yielded yet.
YieldableAny == IF ready # {} THEN ready ELSE Range(finished) \ Range(order)

\* as_completed not remembering which finished futures it has yielded.
YieldableAgain == IF ready # {} THEN ready ELSE Range(finished)

\* The futures as_completed may yield next: any of those found done at the
\* call (it keeps them in a set), then the others as they finish.
Yieldable ==
    IF ready # {} THEN ready
    ELSE LET left == SelectSeq(finished, LAMBDA i : i \notin Range(order))
         IN  IF left = <<>> THEN {} ELSE {Head(left)}

\* Lines 203-204: the next future is yielded and its result appended;
\* fut.result() raises what the task raised, which ends main.
Collect ==
    /\ pc = "collect"
    /\ \E i \in Yieldable :
          /\ order' = Append(order, i)
          /\ ready' = ready \ {i}
          /\ IF task[i].pc = "raised"
             THEN pc' = "Exception" /\ UNCHANGED enriched
             ELSE pc' = pc /\ enriched' = Append(enriched, task[i].out)
    /\ UNCHANGED <<file, argWorkers, env, rows, workers, submitted,
                   task, finished, output, now>>

\* Lines 219-222: every future was yielded, the pool and the session are
\* closed and the list is written in the format asked for.
Write ==
    /\ pc = "collect"
    /\ Len(order) = N
    /\ \E fmt \in {"json", "csv"} :
          output' = IF fmt = "json" THEN write_json(enriched) ELSE write_csv(enriched)
    /\ pc' = "done"
    /\ UNCHANGED <<file, argWorkers, env, rows, workers, submitted, task,
                   finished, ready, order, enriched, now>>

\* ------------------------------------------------------------- pool workers

\* The finished list after task i became t.
Done(i, t) ==
    IF t.pc \in {"finished", "raised"} THEN Append(finished, i) ELSE finished

\* A worker thread takes the oldest queued task; the pool runs at most
\* `workers` threads.  enrich_one begins: lines 100-114.
StartTask(i) ==
    /\ pc \in {"submit", "collect"}
    /\ i <= submitted
    /\ task[i].pc = "queued"
    /\ \A j \in 1..(i - 1) : task[j].pc # "queued"
    /\ Cardinality(Running) < workers
    /\ \E t \in now..env.seconds :
          /\ now' = t
          /\ task' = [task EXCEPT ![i] = Enter(RowOf(i), Timestamps[t])]
    /\ UNCHANGED <<file, argWorkers, env, pc, rows, workers, submitted,
                   finished, ready, order, enriched, output>>

\* The geocode call of task i returns.
GeoReturn(i) ==
    /\ task[i].pc = "geocode"
    /\ \E r \in GeoAnswersTo(Request(task[i])) :
          LET t == AfterGeocode(task[i], r)
          IN  /\ task' = [task EXCEPT ![i] = t]
              /\ finished' = Done(i, t)
    /\ UNCHANGED <<file, argWorkers, env, pc, rows, workers, submitted,
                   ready, order, enriched, output, now>>

\* The weather call of task i returns.
WxReturn(i) ==
    /\ task[i].pc = "weather"
    /\ \E r \in WxAnswersTo(Request(task[i])) :
          LET t == AfterWeather(task[i], r)
          IN  /\ task' = [task EXCEPT ![i] = t]
              /\ finished' = Done(i, t)
    /\ UNCHANGED <<file, argWorkers, env, pc, rows, workers, submitted,
                   ready, order, enriched, output, now>>

\* The conversion call of task i returns.
FxReturn(i) ==
    /\ task[i].pc = "fx"
    /\ \E r \in FxAnswersTo(Request(task[i])) :
          LET t == AfterFx(task[i], r)
          IN  /\ task' = [task EXCEPT ![i] = t]
              /\ finished' = Done(i, t)
    /\ UNCHANGED <<file, argWorkers, env, pc, rows, workers, submitted,
                   ready, order, enriched, output, now>>

Next ==
    \/ LoadRows
    \/ DecideWorkers
    \/ Submit
    \/ AsCompleted
    \/ Collect
    \/ Write
    \/ \E i \in DOMAIN task : StartTask(i)
    \/ \E i \in DOMAIN task : GeoReturn(i)
    \/ \E i \in DOMAIN task : WxReturn(i)
    \/ \E i \in DOMAIN task : FxReturn(i)

\* ------------------------------------------------------------- initial states

\* Data lines: city, country_code, local_currency, amount.
Berlin == <<<<"B">>, <<"D">>, <<"E">>, <<"1", ".", "1">>>>
Oslo == <<<<" ", "O">>, <<"N">>, <<" ">>, <<"-", "1">>>>
Lines == {Berlin, Oslo}

RECURSIVE ListsUpTo(_, _)
ListsUpTo(S, n) ==
    IF n = 0 THEN {<<>>}
    ELSE LET shorter == ListsUpTo(S, n - 1)
         IN  shorter \cup {Append(l, x) : l \in shorter, x \in S}

Canonical == <<"city", "country_code", "local_currency", "amount">>

RunHeaders ==
    {Header(Canonical),
     Header(<<"city", "country_code", "local_currency">>),
     Header(<<"city", "country_code", "local_currency", "amount", "note">>),
     NoHeader}

Idle ==
    /\ pc = "load_rows"
    /\ rows = <<>>
    /\ workers = 0
    /\ submitted = 0
    /\ task = <<>>
    /\ finished = <<>>
    /\ ready = {}
    /\ order = <<>>
    /\ enriched = <<>>
    /\ output = NoOutput
    /\ now = 1

\* A run over any file of at most MaxRows lines, with any worker override.
Init ==
    /\ file \in {File(h, l) : h \in RunHeaders, l \in ListsUpTo(Lines, MaxRows)}
    /\ argWorkers \in 0..MaxWorkers
    /\ env = Env("basic", 8, 1)
    /\ Idle

Spec == Init /\ [][Next]_vars

\* Runs over a Berlin line followed by Oslo lines, MaxRows lines at most,
\* with a worker override of one or more.
InitFair ==
    /\ file \in {File(Header(Canonical), <<Berlin>> \o l) :
                    l \in ListsUpTo({Oslo}, MaxRows - 1)}
    /\ argWorkers \in 1..MaxWorkers
    /\ env = Env("basic", 8, 1)
    /\ Idle

\* Those runs with the scheduling the program relies on: the main thread
\* and the pool's threads keep running, and a call in flight ends, with an
\* answer or with the exception requests raises after TIMEOUT seconds; so a
\* step that stays possible is eventually taken.
SpecFair == InitFair /\ [][Next]_vars /\ WF_vars(Next)

\* The cells a single row is enumerated over.
Currencies == {<<"E">>, <<" ", "E">>, <<" ">>, <<>>}
Amounts ==
    {<<"1", ".", "1">>, <<" ", "1">>, <<"0">>, <<"-", "1">>, <<"-", "0">>,
     <<"a">>, <<>>, <<"n", "a", "n">>, <<"i", "n", "f">>}
RowLines ==
    {<<<<"B">>, <<"D">>, cur, amt>> : cur \in Currencies, amt \in Amounts}
    \cup {<<<<"B">>, <<"D">>, <<"E">>>>, <<<<"B">>>>,
          <<<<"B">>, <<"D">>, <<"E">>, <<"1">>, <<"x">>>>}

\* One row, every answer of every service, a clock that may advance.
InitRow ==
    /\ file \in {File(Header(Canonical), <<l>>) : l \in RowLines}
    /\ argWorkers = 1
    /\ env = Env("full", 0, 2)
    /\ Idle

SpecRow == InitRow /\ [][Next]_vars

Paris == <<<<"P">>, <<"F">>, <<"E">>, <<"1">>>>

\* Runs over up to MaxRows Berlin, Oslo and Paris lines, with a worker
\* override of one or more, against services that answer as a function of
\* the request, while the clock may advance.
InitOracle ==
    /\ file \in {File(Header(Canonical), l) :
                    l \in ListsUpTo({Berlin, Oslo, Paris}, MaxRows)}
    /\ argWorkers \in 1..MaxWorkers
    /\ env = Env("by_request", 8, 2)
    /\ Idle

SpecOracle == InitOracle /\ [][Next]_vars

\* What os.cpu_count() may return: None (0), two cores, eight cores.
CpuCounts == {0, 2, 8}

\* Runs over a Berlin line followed by Oslo lines, MaxRows lines at most,
\* with any worker override, negative ones included, on any of the hosts.
InitWorkers ==
    /\ file \in {File(Header(Canonical), <<Berlin>> \o l) :
                    l \in ListsUpTo({Oslo}, MaxRows - 1)}
    /\ argWorkers \in (0 - MaxWorkers)..MaxWorkers
    /\ env \in {Env("basic", c, 1) : c \in CpuCounts}
    /\ Idle

SpecWorkers == InitWorkers /\ [][Next]_vars

\* One row whose amount cell is any text of at most MaxLen characters.
InitAmount ==
    /\ file \in {File(Header(Canonical), <<<<<<"B">>, <<"D">>, <<"E">>, a>>>>) :
                    a \in TextUpTo(MaxLen)}
    /\ argWorkers = 1
    /\ env = Env("basic", 8, 1)
    /\ Idle

SpecAmount == InitAmount /\ [][Next]_vars

\* Most columns of a header enumerated by InitHeader.
MaxCols == 5
ColumnNames == req_headers \cup {"note"}

\* One data line under any header of at most MaxCols names, or none.
InitHeader ==
    /\ file \in {File(h, <<Berlin>>) :
                    h \in {NoHeader}
                          \cup {Header(n) : n \in ListsUpTo(ColumnNames, MaxCols)}}
    /\ argWorkers = 0
    /\ env = Env("basic", 0, 1)
    /\ Idle

SpecHeader == InitHeader /\ [][Next]_vars

\* ------------------------------------------------------------- properties

\* The indices of task i's calls to service svc.
CallsTo(i, svc) == {k \in DOMAIN task[i].calls : task[i].calls[k].svc = svc}

\* The calls of task i to svc that have returned.
AnsweredCalls(i, svc) == {k \in CallsTo(i, svc) : task[i].calls[k].resp # Pending}

\* What the client of call c returned to enrich_one.
ClientResult(c) ==
    CASE c.svc = "geocode" -> geocode_city(c.resp)
      [] c.svc = "weather" -> get_current_weather(c.resp)
      [] c.svc = "fx" -> fx_to_usd(c.resp)

\* Task i's lookup svc was attempted and failed / succeeded.
Failed(i, svc) ==
    \E k \in AnsweredCalls(i, svc) : ~ClientResult(task[i].calls[k]).some
Succeeded(i, svc) ==
    \E k \in AnsweredCalls(i, svc) : ClientResult(task[i].calls[k]).some

\* The raw text of a cell of row i ("" for a missing cell).
CellText(i, key) == IF rows[i][key].some THEN rows[i][key].s ELSE <<>>

\* C1: a row whose geocode lookup failed never has a weather call, and its
\* latitude, longitude, temperature_c and wind_speed_mps are absent.
C1_NoWeatherWithoutCoordinates ==
    \A i \in DOMAIN task :
        Failed(i, "geocode") =>
            /\ CallsTo(i, "weather") = {}
            /\ task[i].out.latitude = None
            /\ task[i].out.longitude = None
            /\ task[i].out.temperature_c = None
            /\ task[i].out.wind_speed_mps = None

\* C1's case: a row is returned whose geocode call answered with a payload
\* that yields no coordinates, and whose conversion succeeded.
C1_Witness ==
    \E i \in DOMAIN task :
        /\ task[i].pc = "finished"
        /\ Failed(i, "geocode")
        /\ task[i].calls[1].resp.status = "ok"
        /\ task[i].out.amount_usd # None

\* C2: the list handed to the writer is in input order: the record at
\* position k is the enrichment of row k.
C2_InputOrderPreserved ==
    pc = "done" => \A k \in DOMAIN enriched : enriched[k] = task[k].out

\* C3: no future is yielded twice, every collected record is the record of
\* the row it was yielded for and carries that row's city, country_code,
\* local_currency and a timestamp; when the run is done the list and the
\* output hold exactly one record per data line.
C3_OneRecordPerRow ==
    /\ Cardinality(Range(order)) = Len(order)
    /\ pc # "Exception" => Len(enriched) = Len(order)
    /\ \A k \in DOMAIN enriched :
          /\ enriched[k] = task[order[k]].out
          /\ enriched[k].city = Strip(CellText(order[k], "city"))
          /\ enriched[k].country_code = Strip(CellText(order[k], "country_code"))
          /\ enriched[k].local_currency = Strip(CellText(order[k], "local_currency"))
          /\ enriched[k].retrieved_at # ""
    /\ pc = "done" =>
          /\ Range(order) = 1..Len(file.lines)
          /\ Len(enriched) = Len(file.lines)
          /\ Len(output.body) = Len(file.lines)

\* C3's case: two rows written out of input order, one of them with every
\* lookup it attempted failed.
C3_Witness ==
    /\ pc = "done"
    /\ order = <<2, 1>>
    /\ \E k \in DOMAIN enriched :
          /\ Failed(order[k], "geocode")
          /\ Failed(order[k], "fx")
          /\ enriched[k].amount_local # None

\* float() accepts the text and the value is not below zero.
ValidAmount(text) ==
    LET f == ParseFloat(text) IN f # Raised /\ ~LessThanZero(f)

\* The text has a character that is not white space.
NonBlank(text) == \E k \in DOMAIN text : text[k] # " "

\* C4: the conversion service is called only for a row with a valid amount
\* and a non-blank currency, and every returned row with both has had the
\* call, whatever geocoding and weather did.
C4_FxCalledIffValid ==
    \A i \in DOMAIN task :
        LET wanted == /\ ValidAmount(CellText(i, "amount"))
                      /\ NonBlank(CellText(i, "local_currency"))
        IN  /\ CallsTo(i, "fx") # {} => wanted
            /\ task[i].pc = "finished" => (wanted => CallsTo(i, "fx") # {})

\* C4's case: the conversion was called for a row whose geocoding failed.
C4_Witness ==
    \E i \in DOMAIN task :
        /\ task[i].pc = "finished"
        /\ CallsTo(i, "fx") # {}
        /\ Failed(i, "geocode")

\* C5: a returned row whose conversion lookup failed has no fx_rate_to_usd
\* and no amount_usd, and its amount_local is the parsed amount cell.
C5_FxFailureKeepsAmount ==
    \A i \in DOMAIN task :
        task[i].pc = "finished" /\ Failed(i, "fx") =>
            /\ task[i].out.fx_rate_to_usd = None
            /\ task[i].out.amount_usd = None
            /\ task[i].out.amount_local # None
            /\ task[i].out.amount_local = ParseFloat(CellText(i, "amount"))

\* C5's case: the conversion answered with a payload that yields nothing,
\* after geocoding and weather succeeded.
C5_Witness ==
    \E i \in DOMAIN task :
        /\ task[i].pc = "finished"
        /\ Failed(i, "fx")
        /\ \E k \in CallsTo(i, "fx") : task[i].calls[k].resp.status = "ok"
        /\ Succeeded(i, "weather")

\* The answers that carry only one of a lookup's two values.
OneValued ==
    {Response("ok", GeoWrap([x \in {"latitude"} |-> Num(52)])),
     Response("ok", GeoWrap([x \in {"longitude"} |-> Num(13)])),
     Response("ok", WxWrap([x \in {"temperature"} |-> Num(52)])),
     Response("ok", WxWrap([x \in {"windspeed"} |-> Num(13)])),
     Response("ok", FxPayload(JNull, Num(2))),
     Response("ok", FxPayload(Num(96), JNull)),
     Response("ok", JObj([k \in {"result"} |-> Num(96)])),
     Response("ok", JObj([k \in {"info"} |-> JObj([r \in {"rate"} |-> Num(2)])]))}

\* Both fields of a group are absent / present.
Absent(out, f1, f2) == out[f1] = None /\ out[f2] = None
Present(out, f1, f2) == out[f1] # None /\ out[f2] # None

\* C6: each lookup's two fields are both present or both absent; they are
\* present exactly when the lookup was attempted and succeeded, and absent
\* when the answer carried only one of the two values.
C6_GroupsAllOrNothing ==
    \A i \in DOMAIN task :
        LET out == task[i].out
            Group(svc, f1, f2) ==
                /\ Absent(out, f1, f2) \/ Present(out, f1, f2)
                /\ Present(out, f1, f2) <=> Succeeded(i, svc)
                /\ \A k \in AnsweredCalls(i, svc) :
                      task[i].calls[k].resp \in OneValued => Absent(out, f1, f2)
        IN  /\ Group("geocode", "latitude", "longitude")
            /\ Group("weather", "temperature_c", "wind_speed_mps")
            /\ Group("fx", "fx_rate_to_usd", "amount_usd")

\* C6's case: geocoding answered with a latitude only and the row was
\* returned with its conversion fields filled.
C6_Witness ==
    \E i \in DOMAIN task :
        /\ task[i].pc = "finished"
        /\ task[i].calls[1].resp \in OneValued
        /\ Present(task[i].out, "fx_rate_to_usd", "amount_usd")

\* C7: no task ends with an exception and main is not ended by one; after
\* any failed lookup the task goes on, with that lookup's fields absent.
C7_EnrichOneNeverRaises ==
    /\ pc # "Exception"
    /\ \A i \in DOMAIN task :
          /\ task[i].pc \in {"queued", "geocode", "weather", "fx", "finished"}
          /\ Failed(i, "geocode") => Absent(task[i].out, "latitude", "longitude")
          /\ Failed(i, "weather") =>
                Absent(task[i].out, "temperature_c", "wind_speed_mps")
          /\ Failed(i, "fx") => Absent(task[i].out, "fx_rate_to_usd", "amount_usd")

\* C7's case: a row lacking cells was returned after its geocode call
\* timed out.
C7_Witness ==
    \E i \in DOMAIN task :
        /\ task[i].pc = "finished"
        /\ ~rows[i]["amount"].some
        /\ task[i].calls[1].resp.status = "Timeout"

\* The header lacks a required name or has a name that is not required.
SchemaMismatch(header) ==
    LET names == IF header.some THEN Range(header.names) ELSE {}
    IN  \/ \E c \in req_headers : c \notin names
        \/ \E c \in names : c \notin req_headers

\* C8: under a header that does not match the schema main never gets past
\* load_rows: nothing is submitted, no task exists to make a call, and
\* nothing is written.
C8_MismatchAbortsBeforeDispatch ==
    SchemaMismatch(file.header) =>
        /\ pc \in {"load_rows", "SystemExit"}
        /\ submitted = 0
        /\ task = <<>>
        /\ enriched = <<>>
        /\ output = NoOutput

\* C8's case: a file with data lines whose header lacks the amount column
\* has ended the run.
C8_Witness ==
    /\ pc = "SystemExit"
    /\ file.header.some
    /\ "amount" \notin Range(file.header.names)
    /\ file.lines # <<>>

\* C9: load_rows accepts exactly the headers made of the four required
\* names, each once.
C9_AcceptsExactlyTheFourNames ==
    pc # "load_rows" =>
        (pc # "SystemExit" <=>
            /\ file.header.some
            /\ Len(file.header.names) = Cardinality(req_headers)
            /\ Range(file.header.names) = req_headers)

\* The special tokens float() accepts.
SpecialToken(text) ==
    LET t == Strip(text)
    IN  t \in {<<"n", "a", "n">>, <<"i", "n", "f">>,
               <<"-", "n", "a", "n">>, <<"-", "i", "n", "f">>}

\* C10: the parsed amount of a row is absent or a number that is not
\* negative, and absent for nan and inf.
C10_ParseAmountAbsentOrNonNegative ==
    \A i \in DOMAIN task :
        task[i].pc # "queued" =>
            LET amt == task[i].out.amount_local
            IN  /\ amt = None \/ (amt.tag = "fin" /\ ~LessThanZero(amt))
                /\ SpecialToken(CellText(i, "amount")) => amt = None

\* The first geocoding result, the current_weather object and the info
\* object of an answer whose lookup succeeded.
GeoHit(r) == r.data.o["results"].a[1].o
WxCurrent(r) == r.data.o["current_weather"].o
FxInfo(r) == r.data.o["info"].o

\* The answer task i got from service svc.
AnswerOf(i, svc) ==
    task[i].calls[CHOOSE k \in AnsweredCalls(i, svc) : TRUE].resp

\* Every lookup of row i was made and succeeded.
HappyPath(i) ==
    /\ task[i].pc = "finished"
    /\ Succeeded(i, "geocode")
    /\ Succeeded(i, "weather")
    /\ Succeeded(i, "fx")

\* C11: a row whose three lookups succeeded is returned with the numbers the
\* services answered (latitude and longitude of the first geocoding result,
\* temperature and windspeed of current_weather, info.rate and result of the
\* conversion), the row's stripped city, country_code and local_currency,
\* and the parsed amount as amount_local.
C11_HappyPathCarriesServiceValues ==
    \A i \in DOMAIN task :
        HappyPath(i) =>
            LET out == task[i].out
                geo == GeoHit(AnswerOf(i, "geocode"))
                wx == WxCurrent(AnswerOf(i, "weather"))
                fx == AnswerOf(i, "fx")
            IN  /\ out.latitude = PyFloat(geo["latitude"])
                /\ out.longitude = PyFloat(geo["longitude"])
                /\ out.temperature_c = PyFloat(wx["temperature"])
                /\ out.wind_speed_mps = PyFloat(wx["windspeed"])
                /\ out.fx_rate_to_usd = PyFloat(FxInfo(fx)["rate"])
                /\ out.amount_usd = PyFloat(fx.data.o["result"])
                /\ out.city = Strip(CellText(i, "city"))
                /\ out.country_code = Strip(CellText(i, "country_code"))
                /\ out.local_currency = Strip(CellText(i, "local_currency"))
                /\ out.amount_local = ParseFloat(Strip(CellText(i, "amount")))
                /\ out.amount_local.tag \in {"fin", "nan", "inf"}
                /\ out.local_currency # <<>>

\* C11's case: a returned row all of whose lookups succeeded, the geocoding
\* service having answered its latitude as a numeric string.
C11_Witness ==
    \E i \in DOMAIN task :
        /\ HappyPath(i)
        /\ GeoHit(AnswerOf(i, "geocode"))["latitude"].t = "str"
        /\ task[i].out.latitude # task[i].out.longitude

Services == {"geocode", "weather", "fx"}

\* Every call of the run to service svc, as (task, position in its log).
AllCallsTo(svc) ==
    {p \in UNION {{<<i, k>> : k \in DOMAIN task[i].calls} : i \in DOMAIN task} :
        task[p[1]].calls[p[2]].svc = svc}

\* C12: no lookup is retried: a row's task calls each service at most once
\* and, once started, the geocoding service exactly once, whatever the
\* answers; a run over N rows makes at most N calls to each service.
C12_EachServiceAtMostOncePerRow ==
    /\ \A i \in DOMAIN task :
          /\ \A svc \in Services : Cardinality(CallsTo(i, svc)) <= 1
          /\ task[i].pc = "queued" => task[i].calls = <<>>
          /\ task[i].pc # "queued" => Cardinality(CallsTo(i, "geocode")) = 1
    /\ \A svc \in Services : Cardinality(AllCallsTo(svc)) <= N

\* C12's case: a finished run over two rows, one whose geocode call failed
\* and one that called all three services with the weather call failing.
C12_Witness ==
    /\ pc = "done"
    /\ N = 2
    /\ \E i, j \in DOMAIN task :
          /\ Failed(i, "geocode")
          /\ Failed(j, "weather")
          /\ Len(task[j].calls) = 3
    /\ Cardinality(AllCallsTo("geocode")) = 2

\* C13: once the rows are dispatched the run completes: the output is
\* eventually written, no task and no failed or timed-out call ends the run
\* with an exception, and the output is written once, when every task has
\* finished and every record is collected.
C13_RunCompletes ==
    /\ (pc = "submit") ~> (pc = "done")
    /\ [](pc # "Exception" /\ \A i \in DOMAIN task : task[i].pc # "raised")
    /\ [](output.format # NoOutput.format =>
            /\ pc = "done"
            /\ Len(output.body) = N
            /\ \A i \in DOMAIN task : task[i].pc = "finished")
    /\ [][output.format # NoOutput.format => output'.format = output.format]_vars

\* C13's case: a run over two rows that is done, one row's geocode call
\* having timed out and the other row's conversion call having failed.
C13_Witness ==
    /\ pc = "done"
    /\ output.format # NoOutput.format
    /\ N = 2
    /\ \E i, j \in DOMAIN task :
          /\ i # j
          /\ task[i].calls[1].resp.status = "Timeout"
          /\ Failed(j, "fx")

\* C14: the record of a started task carries a timestamp of the clock from
\* the moment it is built, when the geocode call has been sent and not yet
\* answered, and no later step of the task changes it; every collected
\* record carries it.
C14_RetrievedAtSetOnceAtConstruction ==
    /\ [](\A i \in DOMAIN task :
            task[i].pc # "queued" =>
                /\ task[i].out.retrieved_at # ""
                /\ task[i].out.retrieved_at \in Range(Timestamps))
    /\ [](\A k \in DOMAIN enriched :
            /\ enriched[k].retrieved_at # ""
            /\ enriched[k].retrieved_at = task[order[k]].out.retrieved_at)
    /\ [][\A i \in DOMAIN task :
            task[i].pc # "queued" =>
                task'[i].out.retrieved_at = task[i].out.retrieved_at]_vars

\* C14's case: a record built at the clock's second reading is written
\* after three lookups, the last of which failed.
C14_Witness ==
    /\ pc = "done"
    /\ \E i \in DOMAIN task :
          /\ task[i].out.retrieved_at = Timestamps[2]
          /\ Len(task[i].calls) = 3
          /\ Failed(i, "fx")
          /\ enriched[1].retrieved_at = Timestamps[2]

\* Task i comes before task j in the sequence s of task indices.
Before(s, i, j) ==
    \E a, b \in DOMAIN s : a < b /\ s[a] = i /\ s[b] = j

C16_OneWorkerKeepsInputOrder ==
    (workers = 1 /\ pc = "done") =>
        /\ order = [k \in 1..N |-> k]
        /\ \A k \in DOMAIN enriched : enriched[k] = task[k].out

\* With one worker the tasks do finish in input row order.
OneWorkerFinishesInInputOrder ==
    workers = 1 => \A a \in DOMAIN finished : finished[a] = a

\* C17: once decided, the pool's worker count is the override when it is
\* positive and otherwise the larger of 4 and the host's processor count (4
\* when the host does not tell it); the enrichments in progress never
\* number more than it.
C17_EffectiveWorkerCount ==
    pc \in {"submit", "collect", "done", "Exception"} =>
        /\ argWorkers > 0 => workers = argWorkers
        /\ argWorkers <= 0 =>
              /\ env.cpu_count > 4 => workers = env.cpu_count
              /\ env.cpu_count <= 4 => workers = 4
        /\ Cardinality(Running) <= workers

\* C17's case: every worker of the pool is busy while a submitted row waits
\* for one.
C17_Witness ==
    /\ workers = argWorkers
    /\ Cardinality(Running) = workers
    /\ \E i \in DOMAIN task : i <= submitted /\ task[i].pc = "queued"

\* The calls of task i that have not returned.
InFlight(i) == {k \in DOMAIN task[i].calls : task[i].calls[k].resp = Pending}

\* C18: a row's lookups are made one after the other: at most one call of
\* the task is in flight, and it is the latest; a weather call is made only
\* after the geocode call returned coordinates, and with exactly those; a
\* conversion call is made only after the geocode call returned and, when
\* it gave coordinates, after the weather call returned too.
C18_LookupsStrictlySequential ==
    \A i \in DOMAIN task :
        LET calls == task[i].calls
        IN  /\ Cardinality(InFlight(i)) <= 1
            /\ \A k \in InFlight(i) : k = Len(calls)
            /\ \A k \in CallsTo(i, "weather") :
                  \E j \in AnsweredCalls(i, "geocode") :
                      /\ j < k
                      /\ ClientResult(calls[j]).some
                      /\ calls[k].req.latitude =
                            PyFloat(GeoHit(calls[j].resp)["latitude"])
                      /\ calls[k].req.longitude =
                            PyFloat(GeoHit(calls[j].resp)["longitude"])
            /\ \A k \in CallsTo(i, "fx") :
                  \E j \in AnsweredCalls(i, "geocode") :
                      /\ j < k
                      /\ ClientResult(calls[j]).some =>
                            \E w \in AnsweredCalls(i, "weather") : j < w /\ w < k

\* C18's case: the conversion call of a row is in flight after its geocode
\* call returned coordinates, one of them as a numeric string, and its
\* weather call failed.
C18_Witness ==
    \E i \in DOMAIN task :
        /\ task[i].pc = "fx"
        /\ InFlight(i) = {3}
        /\ GeoHit(task[i].calls[1].resp)["latitude"].t = "str"
        /\ task[i].calls[2].req.latitude # task[i].calls[2].req.longitude
        /\ Failed(i, "weather")

\* The record without its timestamp.
Blank(out) == [out EXCEPT !.retrieved_at = ""]

\* The record enrich_one returns for the row when it runs alone against
\* the services that answer as a function of the request.
Alone(row) ==
    LET t0 == Enter(row, "")
        t1 == AfterGeocode(t0, GeoOracle(Request(t0)))
        t2 == IF t1.pc = "weather" THEN AfterWeather(t1, WxOracle(Request(t1)))
              ELSE t1
        t3 == IF t2.pc = "fx" THEN AfterFx(t2, FxOracle(Request(t2))) ELSE t2
    IN  t3.out

\* C19: with services that answer as a function of the request, the record
\* a task returns is, apart from retrieved_at, the record enrich_one returns
\* for that row alone, whatever the other tasks do; so the records written
\* are, as a multiset, those of the rows alone, for every worker count and
\* every interleaving.
C19_RowsDoNotInterfere ==
    /\ \A i \in DOMAIN task :
          task[i].pc = "finished" => Blank(task[i].out) = Alone(rows[i])
    /\ pc = "done" =>
          /\ Len(enriched) = N
          /\ \A i \in 1..N :
                Cardinality({k \in DOMAIN enriched :
                                Blank(enriched[k]) = Alone(rows[i])})
                    = Cardinality({j \in 1..N : Alone(rows[j]) = Alone(rows[i])})

\* C19's case: two different rows given to a pool of two workers and
\* started at different readings of the clock are written out of input
\* order, the second with a converted amount.
C19_Witness ==
    /\ pc = "done"
    /\ workers = 2
    /\ order = <<2, 1>>
    /\ Alone(rows[1]) # Alone(rows[2])
    /\ enriched[1].retrieved_at # enriched[2].retrieved_at
    /\ enriched[2].amount_usd # None

====
